---- MODULE Spec2Model ----
(***************************************************************************)
(* O1-EcoSense: the session resolver and authentication middleware of      *)
(* server/auth/session.ts, and the state of the AIChatbot widget.          *)
(*                                                                         *)
(* JavaScript values are modelled as follows.  A string is a TLA+ string.  *)
(* A value that may be undefined is a record [has, val]: has = FALSE is    *)
(* undefined.  The resolver's number | null is a record [null, n].         *)
(***************************************************************************)
EXTENDS Integers, Sequences, FiniteSets, TLC

(***************************************************************************)
(* Part I.  server/auth/session.ts                                         *)
(***************************************************************************)

VARIABLES
    users,        \* the user store behind storage.getUserByUsername
    req,          \* the request handed to requireAuth
    pc,           \* where requireAuth's promise chain stands
    lookupKey,    \* the username the pending store lookup was called with
    lookups,      \* calls of storage.getUserByUsername for this request
    lookupThrew,  \* whether that lookup threw or rejected
    promise,      \* the promise returned by getUserFromSession
    res,          \* the response: status 0 while nothing has been sent
    nextCalls,    \* calls of next() for this request
    reqUserId,    \* req.userId
    errorLog      \* the console.error labels written for this request

authVars == <<users, req, pc, lookupKey, lookups, lookupThrew, promise, res,
              nextCalls, reqUserId, errorLog>>

\* The state of the AIChatbot widget (Part II).
VARIABLES
    hasProfile,   \* !!userProfile: the history query is enabled
    messages,     \* useState<ChatMessage[]>
    input,        \* useState('')
    isTyping,     \* useState(false)
    query,        \* the history query of useQuery
    inflight,     \* the send requests issued by sendMessage.mutate, unanswered
    mutation,     \* the sendMessage mutation: its status and last failure
    sendsIssued,  \* the number of send requests issued so far
    attempts,     \* the requests the current history fetch has made
    invalidations, \* calls of queryClient.invalidateQueries so far
    event         \* the handler or callback that ran last

chatVars == <<hasProfile, messages, input, isTyping, query, inflight,
              mutation, sendsIssued, attempts, invalidations, event>>

vars == <<authVars, chatVars>>

\* ---- JavaScript values ------------------------------------------------

Undefined == [has |-> FALSE, val |-> ""]

Some(s) == [has |-> TRUE, val |-> s]

\* Truthiness of a string | undefined: undefined and "" are falsy.
Truthy(v) == v.has /\ v.val # ""

Null == [null |-> TRUE, n |-> 0]

Num(k) == [null |-> FALSE, n |-> k]

\* !v for a number | null.
Falsy(v) == v.null \/ v.n = 0

startsWith(s, prefix) ==
    Len(s) >= Len(prefix) /\ SubSeq(s, 1, Len(prefix)) = prefix

substring(s, start) ==
    IF start >= Len(s) THEN "" ELSE SubSeq(s, start + 1, Len(s))

\* ---- the inputs ---------------------------------------------------------

AllUsers == { [username |-> "alice", id |-> 1], [username |-> "bob", id |-> 2] }

Stores == SUBSET AllUsers

AuthHeaders ==
    { Undefined } \cup
    { Some(s) : s \in { "", "Bearer alice", "Bearer bob", "Bearer mallory",
                        "Bearer ", "Bearer", "bearer alice", "Basic alice" } }

SessionIds ==
    { Undefined } \cup { Some(s) : s \in { "", "alice", "bob", "mallory" } }

\* A request: headers is undefined only for an object that is no Express
\* request; cookies is undefined when no cookie parser ran.
Requests ==
    { r \in [ hasHeaders : BOOLEAN, authorization : AuthHeaders,
              hasCookies : BOOLEAN, sessionId : SessionIds ] :
        /\ (~r.hasHeaders => r.authorization = Undefined)
        /\ (~r.hasCookies => r.sessionId = Undefined) }

NoRequest ==
    [ hasHeaders |-> TRUE, authorization |-> Undefined,
      hasCookies |-> FALSE, sessionId |-> Undefined ]

\* ---- storage.getUserByUsername ------------------------------------------

\* The users the store holds under a username (none or one).
getUserByUsername(store, username) == { u \in store : u.username = username }

\* ---- getUserFromSession -------------------------------------------------

\* Mutant of HasBearer: the prefix tested lacks its trailing space.
HasBearerNoSpace(r) ==
    Truthy(r.authorization) /\ startsWith(r.authorization.val, "Bearer")

\* authHeader && authHeader.startsWith('Bearer ')
HasBearer(r) ==
    Truthy(r.authorization) /\ startsWith(r.authorization.val, "Bearer ")

\* Mutant of BearerToken: the prefix is cut one character short.
BearerTokenOffByOne(r) == substring(r.authorization.val, 6)

\* const token = authHeader.substring(7)
BearerToken(r) == substring(r.authorization.val, 7)

\* req.cookies?.sessionId
CookieSessionId(r) == IF r.hasCookies THEN r.sessionId ELSE Undefined

\* user ? user.id : null
IdOrNull(found) ==
    IF found = {} THEN Null ELSE Num((CHOOSE u \in found : TRUE).id)

Pending == [state |-> "pending", value |-> Null]

Fulfilled(v) == [state |-> "fulfilled", value |-> v]

Rejected == [state |-> "rejected", value |-> Null]

\* Mutant of ResolverBranch: the cookie is consulted before the header.
ResolverBranchCookieFirst(r) ==
    IF ~r.hasHeaders THEN [kind |-> "throw", key |-> ""]
    ELSE IF Truthy(CookieSessionId(r))
         THEN [kind |-> "cookie", key |-> CookieSessionId(r).val]
    ELSE IF HasBearer(r) THEN [kind |-> "bearer", key |-> BearerToken(r)]
    ELSE [kind |-> "fallback", key |-> ""]

\* The synchronous part of getUserFromSession, up to its first await or its
\* return: the branch taken and the username looked up.
ResolverBranch(r) ==
    IF ~r.hasHeaders THEN [kind |-> "throw", key |-> ""]
    ELSE IF HasBearer(r) THEN [kind |-> "bearer", key |-> BearerToken(r)]
    ELSE IF Truthy(CookieSessionId(r))
         THEN [kind |-> "cookie", key |-> CookieSessionId(r).val]
    ELSE [kind |-> "fallback", key |-> ""]

\* return 0; // Default user ID for development
FallbackId == Num(0)

\* ---- requireAuth ---------------------------------------------------------

NoResponse == [status |-> 0, body |-> ""]

\* Mutant of Unauthorized: the test is !userId alone.
UnauthorizedRejectsZero(userId) == Falsy(userId)

\* !userId && userId !== 0
Unauthorized(userId) == Falsy(userId) /\ ~(~userId.null /\ userId.n = 0)

InitAuth ==
    /\ users \in Stores
    /\ req = NoRequest
    /\ pc = "idle"
    /\ lookupKey = ""
    /\ lookups = 0
    /\ lookupThrew = FALSE
    /\ promise = Pending
    /\ res = NoResponse
    /\ nextCalls = 0
    /\ reqUserId = Undefined
    /\ errorLog = {}

\* requireAuth(req, res, next) is called: getUserFromSession runs to its
\* first await (a store lookup), to its return, or to a throw.
requireAuth(r) ==
    /\ pc \in {"idle", "done"}
    /\ req' = r
    /\ res' = NoResponse
    /\ nextCalls' = 0
    /\ reqUserId' = Undefined
    /\ errorLog' = {}
    /\ lookupThrew' = FALSE
    /\ LET b == ResolverBranch(r) IN
         CASE b.kind = "throw" ->
                /\ promise' = Rejected
                /\ pc' = "settled"
                /\ lookupKey' = ""
                /\ lookups' = 0
           [] b.kind \in {"bearer", "cookie"} ->
                /\ promise' = Pending
                /\ pc' = b.kind
                /\ lookupKey' = b.key
                /\ lookups' = 1
           [] OTHER ->
                /\ promise' = Fulfilled(FallbackId)
                /\ pc' = "settled"
                /\ lookupKey' = ""
                /\ lookups' = 0
    /\ UNCHANGED users
    /\ UNCHANGED chatVars

\* await storage.getUserByUsername(...) resolves: return user ? user.id : null
LookupResolves ==
    /\ pc \in {"bearer", "cookie"}
    /\ promise' = Fulfilled(IdOrNull(getUserByUsername(users, lookupKey)))
    /\ pc' = "settled"
    /\ UNCHANGED <<users, req, lookupKey, lookups, lookupThrew, res, nextCalls,
                   reqUserId, errorLog>>
    /\ UNCHANGED chatVars

\* Mutant of LookupFailureResult: the lookup is not wrapped in try/catch.
LookupFailurePropagates == Rejected

\* The value getUserFromSession settles with when the lookup fails.
LookupFailureResult == Fulfilled(Null)

\* await storage.getUserByUsername(...) throws: catch, console.error, null
LookupThrows ==
    /\ pc \in {"bearer", "cookie"}
    /\ lookupThrew' = TRUE
    /\ errorLog' = errorLog \cup
         { IF pc = "bearer" THEN "Error validating token:"
                            ELSE "Error validating session:" }
    /\ promise' = LookupFailureResult
    /\ pc' = "settled"
    /\ UNCHANGED <<users, req, lookupKey, lookups, res, nextCalls, reqUserId>>
    /\ UNCHANGED chatVars

\* Mutant of ThenCallback: the 401 branch lacks its return.
ThenCallbackNoReturn ==
    /\ pc = "settled"
    /\ promise.state = "fulfilled"
    /\ res' = IF Unauthorized(promise.value)
              THEN [status |-> 401, body |-> "Unauthorized"]
              ELSE res
    /\ reqUserId' = [has |-> TRUE, val |-> promise.value]
    /\ nextCalls' = nextCalls + 1
    /\ pc' = "done"
    /\ UNCHANGED <<users, req, lookupKey, lookups, lookupThrew, promise, errorLog>>
    /\ UNCHANGED chatVars

\* Mutant of ThenCallback: next is called without attaching the id.
ThenCallbackForgetsUserId ==
    /\ pc = "settled"
    /\ promise.state = "fulfilled"
    /\ IF Unauthorized(promise.value)
       THEN /\ res' = [status |-> 401, body |-> "Unauthorized"]
            /\ UNCHANGED nextCalls
       ELSE /\ nextCalls' = nextCalls + 1
            /\ UNCHANGED res
    /\ pc' = "done"
    /\ UNCHANGED <<users, req, lookupKey, lookups, lookupThrew, promise,
                   reqUserId, errorLog>>
    /\ UNCHANGED chatVars

\* .then(userId => { ... })
ThenCallback ==
    /\ pc = "settled"
    /\ promise.state = "fulfilled"
    /\ IF Unauthorized(promise.value)
       THEN /\ res' = [status |-> 401, body |-> "Unauthorized"]
            /\ UNCHANGED <<nextCalls, reqUserId>>
       ELSE /\ reqUserId' = [has |-> TRUE, val |-> promise.value]
            /\ nextCalls' = nextCalls + 1
            /\ UNCHANGED res
    /\ pc' = "done"
    /\ UNCHANGED <<users, req, lookupKey, lookups, lookupThrew, promise, errorLog>>
    /\ UNCHANGED chatVars

\* Mutant of CatchCallback: the error is handed to next instead of answered.
CatchCallbackCallsNext ==
    /\ pc = "settled"
    /\ promise.state = "rejected"
    /\ errorLog' = errorLog \cup {"Auth error:"}
    /\ nextCalls' = nextCalls + 1
    /\ pc' = "done"
    /\ UNCHANGED <<users, req, lookupKey, lookups, lookupThrew, promise,
                   res, reqUserId>>
    /\ UNCHANGED chatVars

\* .catch(error => { ... })
CatchCallback ==
    /\ pc = "settled"
    /\ promise.state = "rejected"
    /\ errorLog' = errorLog \cup {"Auth error:"}
    /\ res' = [status |-> 500, body |-> "Internal server error"]
    /\ pc' = "done"
    /\ UNCHANGED <<users, req, lookupKey, lookups, lookupThrew, promise,
                   nextCalls, reqUserId>>
    /\ UNCHANGED chatVars

NextAuth ==
    \/ \E r \in Requests : requireAuth(r)
    \/ LookupResolves
    \/ LookupThrows
    \/ ThenCallback
    \/ CatchCallback

(***************************************************************************)
(* Part II.  The AIChatbot widget                                          *)
(***************************************************************************)

\* The number of submits followed in one run.
MaxSends == 2

\* ---- the inputs ---------------------------------------------------------

UserMessage(text) == [role |-> "user", content |-> text]

AssistantMessage(text) == [role |-> "assistant", content |-> text]

\* What the user can type into the input.
Inputs == { "", " ", "hi", " hi " }

\* The bodies GET /api/chat/history answers with: { messages?: ChatMessage[] }.
HistoryBodies ==
    { [hasMessages |-> FALSE, messages |-> <<>>],
      [hasMessages |-> TRUE, messages |-> <<UserMessage("hi")>>],
      [hasMessages |-> TRUE,
       messages |-> <<UserMessage("hi"), AssistantMessage("hello")>>] }

NoData == [has |-> FALSE, body |-> [hasMessages |-> FALSE, messages |-> <<>>]]

Data(body) == [has |-> TRUE, body |-> body]

\* An error without a status field, such as a network failure.
NoStatus == 0

\* The errors a history fetch fails with, by their status field.
FetchErrors == { 401, 500, NoStatus }

\* The ways a send fails: a response that is not ok, whose JSON body may carry
\* a message, or a rejection of apiRequest with an Error of some message.
SendFailures ==
    { [kind |-> "response", message |-> m] :
          m \in { Undefined, Some(""), Some("rate limited") } } \cup
    { [kind |-> "rejection", message |-> Some(m)] : m \in { "", "Failed to fetch" } }

\* ---- helpers --------------------------------------------------------------

RECURSIVE trimStart(_)
trimStart(s) ==
    IF Len(s) > 0 /\ SubSeq(s, 1, 1) = " "
    THEN trimStart(SubSeq(s, 2, Len(s)))
    ELSE s

RECURSIVE trimEnd(_)
trimEnd(s) ==
    IF Len(s) > 0 /\ SubSeq(s, Len(s), Len(s)) = " "
    THEN trimEnd(SubSeq(s, 1, Len(s) - 1))
    ELSE s

\* Mutant of trim: nothing is trimmed.
trimNothing(s) == s

\* String.prototype.trim
trim(s) == trimEnd(trimStart(s))

\* Mutant of retry: the 401 test is missing.
retryIgnoresStatus(failureCount, status) == failureCount < 3

\* retry: (failureCount, error) => !(error.status === 401) && failureCount < 3
retry(failureCount, status) == ~(status = 401) /\ failureCount < 3

\* The message of the Error that mutationFn rejects with.
ThrownMessage(failure) ==
    IF failure.kind = "response"
    THEN IF Truthy(failure.message) THEN failure.message.val
         ELSE "Failed to send message"
    ELSE failure.message.val

\* `Error: ${error.message || 'Failed to get response. Please try again.'}`
ErrorBubble(message) ==
    AssistantMessage("Error: " \o
        (IF message # "" THEN message
         ELSE "Failed to get response. Please try again."))

\* chatHistory.messages || []
HistoryMessages(body) == IF body.hasMessages THEN body.messages ELSE <<>>

\* useEffect(() => { if (chatHistory) setMessages(...) }, [chatHistory]): the
\* effect runs when chatHistory changes.  The query keeps the previous data
\* object when a refetch returns deep-equal JSON (structural sharing), so the
\* dependency changes exactly when the value does.
HistoryEffect(oldData, newData, current) ==
    IF newData # oldData /\ newData.has
    THEN HistoryMessages(newData.body)
    ELSE current

\* isLoading: a first fetch is under way.
isLoading == query.status = "pending" /\ query.fetching

\* Mutant of View: every query error shows the sign-in card.
ViewSignInOnAnyError ==
    IF query.status = "error" THEN "signin"
    ELSE IF isLoading THEN "skeleton"
    ELSE "chat"

\* The branch of the render: the sign-in card, the skeleton or the chat.
View ==
    IF query.status = "error" /\ query.error = 401 THEN "signin"
    ELSE IF isLoading THEN "skeleton"
    ELSE "chat"

\* queryClient.invalidateQueries: an enabled query is refetched; without data
\* it goes back to pending and drops its error.
Invalidated(q) ==
    IF ~hasProfile THEN q
    ELSE IF q.data.has
         THEN [q EXCEPT !.fetching = TRUE, !.failureCount = 0]
         ELSE [q EXCEPT !.fetching = TRUE, !.failureCount = 0,
                        !.status = "pending", !.error = NoStatus]

\* useMutation before any mutate: no failure, no error.
NoFailure == [kind |-> "none", message |-> Undefined]

IdleMutation == [status |-> "idle", failure |-> NoFailure, error |-> ""]

\* ---- the widget -----------------------------------------------------------

InitChat ==
    /\ hasProfile \in BOOLEAN
    /\ messages = <<>>
    /\ input = ""
    /\ isTyping = FALSE
    /\ query = [status |-> "pending", fetching |-> hasProfile,
                failureCount |-> 0, error |-> NoStatus, data |-> NoData]
    /\ inflight = <<>>
    /\ mutation = IdleMutation
    /\ sendsIssued = 0
    /\ attempts = IF hasProfile THEN 1 ELSE 0
    /\ invalidations = 0
    /\ event = "mount"

\* The history fetch answers 200 with a body.
FetchSucceeds(body) ==
    /\ query.fetching
    /\ query' = [status |-> "success", fetching |-> FALSE, failureCount |-> 0,
                 error |-> NoStatus, data |-> Data(body)]
    /\ messages' = HistoryEffect(query.data, Data(body), messages)
    /\ event' = "fetchSuccess"
    /\ UNCHANGED <<hasProfile, input, isTyping, inflight, mutation, sendsIssued,
                   attempts, invalidations>>
    /\ UNCHANGED authVars

\* The history fetch fails: it is retried or the query settles in error.
FetchFails(status) ==
    /\ query.fetching
    /\ IF retry(query.failureCount, status)
       THEN /\ query' = [query EXCEPT !.failureCount = @ + 1]
            /\ attempts' = attempts + 1
       ELSE /\ query' = [query EXCEPT !.status = "error", !.error = status,
                                      !.fetching = FALSE]
            /\ UNCHANGED attempts
    /\ event' = "fetchFailure"
    /\ UNCHANGED <<hasProfile, messages, input, isTyping, inflight, mutation,
                   sendsIssued, invalidations>>
    /\ UNCHANGED authVars

\* onChange={(e) => setInput(e.target.value)} of the input, disabled={isTyping}
ChangeInput(text) ==
    /\ View = "chat"
    /\ ~isTyping
    /\ input' = text
    /\ event' = "change"
    /\ UNCHANGED <<hasProfile, messages, isTyping, query, inflight, mutation,
                   sendsIssued, attempts, invalidations>>
    /\ UNCHANGED authVars

\* Mutant of handleSendMessage: the input is not cleared.
handleSendMessageKeepsInput ==
    /\ event' = "submit"
    /\ IF trim(input) = ""
       THEN UNCHANGED <<messages, input, isTyping, inflight, mutation,
                        sendsIssued>>
       ELSE /\ sendsIssued < MaxSends
            /\ messages' = Append(messages, UserMessage(input))
            /\ UNCHANGED input
            /\ isTyping' = TRUE
            /\ inflight' = Append(inflight, input)
            /\ mutation' = [IdleMutation EXCEPT !.status = "pending"]
            /\ sendsIssued' = sendsIssued + 1
    /\ UNCHANGED <<hasProfile, query, attempts, invalidations>>

\* handleSendMessage
handleSendMessage ==
    /\ event' = "submit"
    /\ IF trim(input) = ""
       THEN UNCHANGED <<messages, input, isTyping, inflight, mutation,
                        sendsIssued>>
       ELSE /\ sendsIssued < MaxSends
            /\ messages' = Append(messages, UserMessage(input))
            /\ input' = ""
            /\ isTyping' = TRUE
            /\ inflight' = Append(inflight, input)
            /\ mutation' = [IdleMutation EXCEPT !.status = "pending"]
            /\ sendsIssued' = sendsIssued + 1
    /\ UNCHANGED <<hasProfile, query, attempts, invalidations>>

\* Mutant of FormSubmit: the controls are not disabled while isTyping.
FormSubmitNeverDisabled ==
    /\ View = "chat"
    /\ handleSendMessage
    /\ UNCHANGED authVars

\* The user submits the form: while isTyping the input and the button are
\* disabled and no submit event reaches handleSendMessage.
FormSubmit ==
    /\ View = "chat"
    /\ IF isTyping
       THEN /\ event' = "submitDisabled"
            /\ UNCHANGED <<hasProfile, messages, input, isTyping, query,
                           inflight, mutation, sendsIssued, attempts,
                           invalidations>>
       ELSE handleSendMessage
    /\ UNCHANGED authVars

\* Mutant of SendSucceeds: onSuccess does not clear the typing flag.
SendSucceedsKeepsTyping ==
    /\ inflight # <<>>
    /\ inflight' = Tail(inflight)
    /\ mutation' = [IdleMutation EXCEPT !.status = "success"]
    /\ query' = Invalidated(query)
    /\ invalidations' = invalidations + 1
    /\ attempts' = IF hasProfile THEN 1 ELSE attempts
    /\ event' = "sendSuccess"
    /\ UNCHANGED <<hasProfile, messages, input, isTyping, sendsIssued>>
    /\ UNCHANGED authVars

\* The oldest send request answers ok: onSuccess
SendSucceeds ==
    /\ inflight # <<>>
    /\ inflight' = Tail(inflight)
    /\ mutation' = [IdleMutation EXCEPT !.status = "success"]
    /\ query' = Invalidated(query)
    /\ invalidations' = invalidations + 1
    /\ attempts' = IF hasProfile THEN 1 ELSE attempts
    /\ isTyping' = FALSE
    /\ event' = "sendSuccess"
    /\ UNCHANGED <<hasProfile, messages, input, sendsIssued>>
    /\ UNCHANGED authVars

\* Mutant of SendFails: onError rolls the optimistic message back.
SendFailsRollsBack(failure) ==
    /\ inflight # <<>>
    /\ inflight' = Tail(inflight)
    /\ mutation' = [status |-> "error", failure |-> failure,
                    error |-> ThrownMessage(failure)]
    /\ isTyping' = FALSE
    /\ messages' = Append(SubSeq(messages, 1, Len(messages) - 1),
                          ErrorBubble(ThrownMessage(failure)))
    /\ event' = "sendError"
    /\ UNCHANGED <<hasProfile, input, query, sendsIssued, attempts, invalidations>>
    /\ UNCHANGED authVars

\* The oldest send request fails: onError
SendFails(failure) ==
    /\ inflight # <<>>
    /\ inflight' = Tail(inflight)
    /\ mutation' = [status |-> "error", failure |-> failure,
                    error |-> ThrownMessage(failure)]
    /\ isTyping' = FALSE
    /\ messages' = Append(messages, ErrorBubble(ThrownMessage(failure)))
    /\ event' = "sendError"
    /\ UNCHANGED <<hasProfile, input, query, sendsIssued, attempts, invalidations>>
    /\ UNCHANGED authVars

NextChat ==
    \/ \E body \in HistoryBodies : FetchSucceeds(body)
    \/ \E status \in FetchErrors : FetchFails(status)
    \/ \E text \in Inputs : ChangeInput(text)
    \/ FormSubmit
    \/ SendSucceeds
    \/ \E failure \in SendFailures : SendFails(failure)

Init == InitAuth /\ InitChat

Next == NextAuth \/ NextChat

Spec == Init /\ [][Next]_vars

\* The resolver and the middleware alone, the widget left as mounted.
InitAuthAlone == Init /\ hasProfile

SpecAuth == InitAuthAlone /\ [][NextAuth]_vars

\* The widget alone, the server left idle.
InitChatAlone == Init /\ users = AllUsers

SpecChat == InitChatAlone /\ [][NextChat]_vars

(***************************************************************************)
(* Claims about server/auth/session.ts, checked under SpecAuth.            *)
(***************************************************************************)

\* The request's Authorization header is "Bearer " followed by token.
CarriesBearerToken(r, token) ==
    r.hasHeaders /\ r.authorization = Some("Bearer " \o token)

\* The request's Authorization header starts with "Bearer ".
CarriesBearer(r) ==
    /\ r.hasHeaders
    /\ r.authorization.has
    /\ Len(r.authorization.val) >= 7
    /\ SubSeq(r.authorization.val, 1, 7) = "Bearer "

\* The request carries a sessionId cookie with value v.
CarriesCookie(r, v) == r.hasCookies /\ r.sessionId = Some(v)

\* The request carries no sessionId cookie at all.
CarriesNoCookie(r) == ~r.hasCookies \/ r.sessionId = Undefined

\* The request carries neither an Authorization header nor a sessionId cookie.
CarriesNothing(r) ==
    r.hasHeaders /\ r.authorization = Undefined /\ CarriesNoCookie(r)

Usernames == { u.username : u \in users }

Handled == pc # "idle"

Returned == Handled /\ promise.state # "pending"

Rejected401 ==
    /\ res = [status |-> 401, body |-> "Unauthorized"]
    /\ nextCalls = 0
    /\ reqUserId = Undefined

PassedThroughAs(id) ==
    /\ res = NoResponse
    /\ nextCalls = 1
    /\ reqUserId = [has |-> TRUE, val |-> Num(id)]

\* C1 as stated: for a request whose Authorization header is "Bearer " plus
\* the username of a stored user, getUserFromSession returns that user's id,
\* whatever the sessionId cookie holds.
C1_BearerResolvesToId ==
    \A u \in users :
        (Returned /\ CarriesBearerToken(req, u.username))
            => promise = Fulfilled(Num(u.id))

\* C1 amended: for such a request getUserFromSession returns that user's id,
\* whatever the sessionId cookie holds, provided the store lookup does not
\* fail; when the lookup throws or rejects it returns null.
C1_BearerResolvesToIdUnlessLookupFails ==
    \A u \in users :
        (Returned /\ CarriesBearerToken(req, u.username))
            => /\ lookupKey = u.username
               /\ ~lookupThrew => promise = Fulfilled(Num(u.id))
               /\ lookupThrew => promise = Fulfilled(Null)

C1_Witness ==
    /\ Returned
    /\ ~lookupThrew
    /\ CarriesBearerToken(req, "bob")
    /\ CarriesCookie(req, "alice")
    /\ \E u \in users : u.username = "alice"
    /\ promise = Fulfilled(Num(2))

\* C2: a request with no Authorization header and no sessionId cookie is
\* resolved to exactly 0 without any store lookup, and requireAuth lets it
\* through: next is called once, req.userId is 0, and no 401 or 500 is sent.
C2_NoCredentialFallsBackToZero ==
    (Handled /\ CarriesNothing(req))
        => /\ lookups = 0
           /\ promise = Fulfilled(Num(0))
           /\ res = NoResponse
           /\ nextCalls <= 1
           /\ pc \in {"settled", "done"}
           /\ pc = "settled" => ENABLED ThenCallback
           /\ pc = "done" => PassedThroughAs(0)

C2_Witness ==
    /\ pc = "done"
    /\ CarriesNothing(req)
    /\ PassedThroughAs(0)

\* C3 as stated: a request with no Bearer header whose sessionId cookie value
\* matches no stored username is resolved to null and answered 401
\* {message: 'Unauthorized'}; next is not called and req.userId is not set.
C3_UnknownCookieIs401 ==
    \A v \in {"", "alice", "bob", "mallory"} \ Usernames :
        (req.hasHeaders /\ ~CarriesBearer(req) /\ CarriesCookie(req, v))
            => /\ Returned => promise = Fulfilled(Null)
               /\ pc = "done" => Rejected401

\* C3 amended: the same for a non-empty cookie value; an empty sessionId
\* cookie counts as no cookie.
C3_UnknownNonEmptyCookieIs401 ==
    \A v \in {"alice", "bob", "mallory"} \ Usernames :
        (req.hasHeaders /\ ~CarriesBearer(req) /\ CarriesCookie(req, v))
            => /\ Returned => promise = Fulfilled(Null)
               /\ nextCalls = 0
               /\ reqUserId = Undefined
               /\ pc = "done" => Rejected401

C3_Witness ==
    /\ pc = "done"
    /\ ~lookupThrew
    /\ req.authorization = Some("Basic alice")
    /\ CarriesCookie(req, "mallory")
    /\ promise = Fulfilled(Null)
    /\ Rejected401

\* An invalid credential in the sense of C4: a Bearer token or a sessionId
\* cookie value that matches no stored username.
CarriesInvalidCredential(r) ==
    \/ \E t \in {"", "alice", "bob", "mallory"} \ Usernames :
           CarriesBearerToken(r, t)
    \/ \E v \in {"", "alice", "bob", "mallory"} \ Usernames :
           r.hasHeaders /\ CarriesCookie(r, v)

\* C4 as stated: a request with a missing credential or an invalid credential
\* is answered with 401 and does not reach the route handler.
C4_MissingOrInvalidIs401 ==
    (pc = "done" /\ (CarriesNothing(req) \/ CarriesInvalidCredential(req)))
        => (res.status = 401 /\ nextCalls = 0)

\* The credential getUserFromSession looks at is invalid: a Bearer token
\* matching no stored username or, without a Bearer header, a non-empty
\* sessionId cookie matching no stored username.
ConsultedCredentialInvalid(r) ==
    \/ \E t \in {"", "alice", "bob", "mallory"} \ Usernames :
           CarriesBearerToken(r, t)
    \/ \E v \in {"alice", "bob", "mallory"} \ Usernames :
           r.hasHeaders /\ ~CarriesBearer(r) /\ CarriesCookie(r, v)

\* C4 amended: a request whose Bearer token matches no stored username, or
\* which has no Bearer header and a non-empty sessionId cookie matching no
\* stored username, is answered with 401 and does not reach the route
\* handler; a request with no Authorization header and no sessionId cookie
\* is not rejected: it reaches the handler as user 0.
C4_InvalidIs401MissingPasses ==
    /\ ConsultedCredentialInvalid(req)
          => (nextCalls = 0 /\ (pc = "done" => Rejected401))
    /\ (pc = "done" /\ CarriesNothing(req)) => PassedThroughAs(0)

C4_Witness ==
    /\ pc = "done"
    /\ CarriesBearerToken(req, "mallory")
    /\ CarriesCookie(req, "alice")
    /\ \E u \in users : u.username = "alice"
    /\ Rejected401

\* C5: when the store lookup throws or rejects, in the Bearer branch or in
\* the cookie branch, getUserFromSession returns null instead of failing, and
\* requireAuth answers the request with 401, never with 500.
C5_LookupFailureIsNull ==
    lookupThrew
        => /\ promise = Fulfilled(Null)
           /\ res.status # 500
           /\ nextCalls = 0
           /\ pc \in {"settled", "done"}
           /\ pc = "settled" => ENABLED ThenCallback /\ ~ENABLED CatchCallback
           /\ pc = "done" => Rejected401

C5_Witness ==
    /\ pc = "done"
    /\ lookupThrew
    /\ CarriesBearerToken(req, "alice")
    /\ \E u \in users : u.username = "alice"
    /\ Rejected401

\* C6: when the promise of getUserFromSession rejects, requireAuth answers
\* 500 {message: 'Internal server error'}, does not call next, does not set
\* req.userId, and the rejection is handled by the middleware's catch.
C6_ResolverFailureIs500 ==
    (Handled /\ promise.state = "rejected")
        => /\ nextCalls = 0
           /\ reqUserId = Undefined
           /\ pc \in {"settled", "done"}
           /\ pc = "settled" => ENABLED CatchCallback /\ res = NoResponse
           /\ pc = "done" =>
                /\ res = [status |-> 500, body |-> "Internal server error"]
                /\ "Auth error:" \in errorLog

C6_Witness ==
    /\ pc = "done"
    /\ promise.state = "rejected"
    /\ res = [status |-> 500, body |-> "Internal server error"]

\* C15: the Bearer header takes precedence: when the Authorization header
\* starts with 'Bearer ', the one lookup made is for the token and the
\* cookie is never consulted, so an unknown token is resolved to null and
\* answered 401 even when the sessionId cookie names a stored user.
C15_BearerTakesPrecedence ==
    \A t \in {"", "alice", "bob", "mallory"} :
        (Handled /\ CarriesBearerToken(req, t))
            => /\ pc # "cookie"
               /\ lookups = 1
               /\ lookupKey = t
               /\ "Error validating session:" \notin errorLog
               /\ t \notin Usernames =>
                    /\ Returned => promise = Fulfilled(Null)
                    /\ nextCalls = 0
                    /\ pc = "done" => Rejected401

C15_Witness ==
    /\ pc = "done"
    /\ ~lookupThrew
    /\ CarriesBearerToken(req, "mallory")
    /\ CarriesCookie(req, "bob")
    /\ \E u \in users : u.username = "bob"
    /\ promise = Fulfilled(Null)
    /\ Rejected401

\* C16: for every request requireAuth does exactly one of three things: it
\* sends 401, it sends 500, or it calls next; it never both sends a response
\* and calls next, and req.userId is set exactly when next is called.
C16_ExactlyOneOutcome ==
    Handled
        => /\ res.status \in {0, 401, 500}
           /\ nextCalls \in {0, 1}
           /\ ~(res.status # 0 /\ nextCalls > 0)
           /\ reqUserId.has <=> nextCalls = 1
           /\ pc = "done" => (res.status # 0 \/ nextCalls = 1)
           /\ pc # "done" => (res = NoResponse /\ nextCalls = 0)
           /\ pc = "settled" => (ENABLED ThenCallback \/ ENABLED CatchCallback)

C16_Witness ==
    /\ pc = "done"
    /\ CarriesCookie(req, "alice")
    /\ nextCalls = 1
    /\ reqUserId = [has |-> TRUE, val |-> Num(1)]
    /\ res = NoResponse

\* C17: a request whose Authorization header is present but does not start
\* with 'Bearer ', and whose sessionId cookie is absent or empty, is resolved
\* to the fallback id 0 without a lookup and passed through by requireAuth.
C17_UnrecognisedCredentialFallsBack ==
    ( /\ Handled
      /\ req.hasHeaders
      /\ req.authorization.has
      /\ ~CarriesBearer(req)
      /\ (CarriesNoCookie(req) \/ CarriesCookie(req, "")) )
        => /\ lookups = 0
           /\ promise = Fulfilled(Num(0))
           /\ res = NoResponse
           /\ pc \in {"settled", "done"}
           /\ pc = "done" => PassedThroughAs(0)

C17_Witness ==
    /\ pc = "done"
    /\ req.authorization = Some("Basic alice")
    /\ CarriesCookie(req, "")
    /\ PassedThroughAs(0)

(***************************************************************************)
(* Claims about the AIChatbot widget, checked under SpecChat.              *)
(***************************************************************************)

\* A send request is issued in this step.
SendIssued == Len(inflight') > Len(inflight)

\* A send request completes in this step, ok or not.
SendCompleted == Len(inflight') < Len(inflight)

\* C7: isTyping is true only while a send request is outstanding; it is set
\* by the submit that issues the request and is false after the request
\* completes, whether it succeeded or failed.
C7_TypingOnlyWhileSending ==
    /\ [](isTyping => inflight # <<>>)
    /\ [][ /\ SendIssued => (event' = "submit" /\ isTyping')
           /\ (~isTyping /\ isTyping') => SendIssued
           /\ SendCompleted =>
                (event' \in {"sendSuccess", "sendError"} /\ ~isTyping') ]_vars

C7_Witness ==
    /\ event = "sendSuccess"
    /\ mutation.status = "success"
    /\ sendsIssued = 2
    /\ inflight = <<>>
    /\ ~isTyping

\* C8: while isTyping is true a submit is rejected: handleSendMessage does
\* not run, no message is appended and no send request is issued, so at most
\* one send request is outstanding at any time.
C8_SubmitRejectedWhileTyping ==
    /\ [](Len(inflight) <= 1)
    /\ [][ isTyping =>
             /\ event' # "submit"
             /\ ~SendIssued
             /\ sendsIssued' = sendsIssued
             /\ event' = "submitDisabled" => messages' = messages ]_vars

C8_Witness ==
    /\ event = "submitDisabled"
    /\ isTyping
    /\ inflight = <<"hi">>
    /\ messages = <<UserMessage("hi")>>

\* The text a failure carries: the message field of the error response, or
\* the message of the Error apiRequest rejected with.
FailureTexts == { "rate limited", "Failed to fetch" }

\* C9: when a send fails with error text m, isTyping becomes false and the
\* message list becomes the list before the failure with exactly one message
\* {role: assistant, content: 'Error: ' + m} appended; nothing is removed
\* from the list and no send request is issued.
C9_SendFailureAppendsErrorBubble ==
    [][ event' = "sendError" =>
          /\ ~isTyping'
          /\ ~SendIssued
          /\ sendsIssued' = sendsIssued
          /\ Len(messages') = Len(messages) + 1
          /\ SubSeq(messages', 1, Len(messages)) = messages
          /\ messages'[Len(messages')].role = "assistant"
          /\ \A m \in FailureTexts :
               mutation'.failure.message = Some(m) =>
                   messages'[Len(messages')] =
                       [role |-> "assistant", content |-> "Error: " \o m] ]_vars

C9_Witness ==
    /\ event = "sendError"
    /\ mutation.failure = [kind |-> "response", message |-> Some("rate limited")]
    /\ ~isTyping
    /\ inflight = <<>>
    /\ messages = << [role |-> "user", content |-> "hi"],
                     [role |-> "assistant", content |-> "Error: rate limited"] >>

\* C10: whenever a history fetch succeeds, the message list becomes exactly
\* the list the server returned (empty when the body has no messages field).
C10_FetchSuccessReplacesMessages ==
    [][ \A body \in HistoryBodies :
          (event' = "fetchSuccess" /\ query'.data = [has |-> TRUE, body |-> body])
              => messages' = (IF body.hasMessages THEN body.messages ELSE <<>>) ]_vars

\* The list a history body stands for: its messages field, or the empty list.
ServerHistory(body) == IF body.hasMessages THEN body.messages ELSE <<>>

\* C11: every successful send invalidates the history query and clears the
\* typing flag, and when the refetch that follows completes successfully the
\* message list equals the server's history; a failed send invalidates
\* nothing.
C11_SendSuccessReconciles ==
    [][ /\ event' = "sendSuccess" =>
              (invalidations' = invalidations + 1 /\ ~isTyping')
        /\ event' = "sendError" => invalidations' = invalidations
        /\ (event' = "fetchSuccess" /\ invalidations > 0) =>
              messages' = ServerHistory(query'.data.body) ]_vars

\* Every character of s is a space.
IsBlank(s) == \A i \in 1..Len(s) : SubSeq(s, i, i) = " "

\* C12: a submit with non-blank input t appends exactly one message
\* {role: user, content: t} at the end of the list, empties the input, sets
\* isTyping and issues exactly one send request carrying t, in the one step of
\* the submit, before any response.
C12_SubmitIsOptimistic ==
    [][ (event' = "submit" /\ ~IsBlank(input)) =>
          /\ messages' = Append(messages, [role |-> "user", content |-> input])
          /\ input' = ""
          /\ isTyping'
          /\ inflight' = Append(inflight, input)
          /\ sendsIssued' = sendsIssued + 1
          /\ mutation'.status = "pending"
          /\ query' = query ]_vars

C12_Witness ==
    /\ event = "submit"
    /\ messages = << [role |-> "user", content |-> " hi "] >>
    /\ input = ""
    /\ isTyping
    /\ inflight = << " hi " >>
    /\ sendsIssued = 1

\* C13 as stated: a history fetch failing with 401 is never retried and
\* shows the sign-in view; one failing with another status is retried, with
\* at most 3 attempts in total before the query settles in error.
C13_AtMostThreeAttempts ==
    /\ [](attempts <= 3)
    /\ [][ FetchFails(401) => (~query'.fetching /\ View' = "signin") ]_vars

\* C13 amended: a history fetch failing with 401 is never retried and shows
\* the sign-in view; one failing with another status is retried up to 3
\* times, so at most 4 attempts are made before the query settles in error
\* (retry is asked with the number of earlier failures, 0 at the first).
C13_AtMostThreeRetries ==
    /\ [](attempts <= 4)
    /\ [](query.fetching => attempts = query.failureCount + 1)
    /\ [][ FetchFails(401) =>
             /\ ~query'.fetching
             /\ attempts' = attempts
             /\ query'.status = "error"
             /\ View' = "signin" ]_vars
    /\ [][ \A status \in FetchErrors \ {401} :
             FetchFails(status) =>
                 IF attempts <= 3
                 THEN query'.fetching /\ attempts' = attempts + 1
                 ELSE /\ ~query'.fetching
                      /\ query'.status = "error"
                      /\ query'.error = status
                      /\ attempts' = 4 ]_vars

C13_Witness ==
    /\ event = "fetchFailure"
    /\ query.status = "error"
    /\ query.error = 500
    /\ ~query.fetching
    /\ attempts = 4

\* A message of the list is an assistant message.
EndsWithAssistantMessage(list) ==
    list # <<>> /\ list[Len(list)].role = "assistant"

QueryErrorIs401 == query.status = "error" /\ query.error = 401

\* C14 as stated: the sign-in prompt shows exactly when the history query is
\* in error with status 401; every other failure, a non-401 history failure
\* or a send failure, leaves the view in place and appends an inline
\* assistant error message.
C14_EveryOtherFailureIsInline ==
    /\ [](View = "signin" <=> QueryErrorIs401)
    /\ [][ event' = "sendError" =>
             /\ View' = View
             /\ Len(messages') = Len(messages) + 1
             /\ EndsWithAssistantMessage(messages') ]_vars
    /\ [][ (event' = "fetchFailure" /\ query'.status = "error"
              /\ ~query'.fetching /\ query'.error # 401) =>
             /\ View' = "chat"
             /\ Len(messages') = Len(messages) + 1
             /\ EndsWithAssistantMessage(messages') ]_vars

\* C14 amended: the sign-in prompt shows exactly when the history query is
\* in error with status 401; a send failure leaves the view in place and
\* appends an inline assistant error message; a non-401 history failure shows
\* the conversation view and adds no message to the list.
C14_OnlySendFailureIsInline ==
    /\ [](View = "signin" <=> QueryErrorIs401)
    /\ [][ event' = "sendError" =>
             /\ View' = View
             /\ Len(messages') = Len(messages) + 1
             /\ EndsWithAssistantMessage(messages') ]_vars
    /\ [][ event' = "fetchFailure" => messages' = messages ]_vars
    /\ [][ (event' = "fetchFailure" /\ query'.status = "error"
              /\ ~query'.fetching /\ query'.error # 401) =>
             View' = "chat" ]_vars

C14_Witness ==
    /\ event = "fetchFailure"
    /\ query.status = "error"
    /\ query.error = 500
    /\ ~query.fetching
    /\ View = "chat"
    /\ messages = <<>>

\* C18: a submit whose input is empty or only spaces changes nothing: the
\* message list, the input and isTyping stay as they are and no send request
\* is issued.
C18_BlankSubmitChangesNothing ==
    [][ (event' = "submit" /\ IsBlank(input)) =>
          /\ messages' = messages
          /\ input' = input
          /\ isTyping' = isTyping
          /\ inflight' = inflight
          /\ sendsIssued' = sendsIssued
          /\ mutation' = mutation
          /\ query' = query ]_vars

C18_Witness ==
    /\ event = "submit"
    /\ input = " "
    /\ messages = <<>>
    /\ ~isTyping
    /\ inflight = <<>>
    /\ sendsIssued = 0

====
